---- MODULE Spec2Model ----
(***************************************************************************)
(* The workflow editor (workflow-editor.js, class WorkflowEditor) as a     *)
(* state machine.  One action per DOM event handler or promise             *)
(* continuation; the browser runs each of them to completion, so every     *)
(* await is the only place where other handlers interleave.                *)
(***************************************************************************)
EXTENDS Integers, Sequences, FiniteSets, TLC

(* ------------------------------ bounds --------------------------------- *)

\* size of the id pool generateId() draws from (Math.random may repeat an id)
MaxIds == 2
\* cap on the size of the connection collection built through the UI
MaxConnections == 1
\* largest mouse / drop coordinate
MaxCoord == 1
\* node ids and connection ids of the definitions DeleteSpec loads
MaxLoadedNodes == 3
MaxLoadedConnections == 2
\* largest workflow id the backend hands out
MaxWorkflowId == 1
\* cap on the HTTP requests in flight at once
MaxPending == 2
\* cap on the HTTP requests sent over a run
MaxRequests == 2
\* cap on the notifications on screen plus those the requests in flight will
\* bring: the user starts no further action beyond it
MaxNotifications == 2
\* cap on the mousemove/mouseup listener pairs registered on the document
MaxListeners == 2

(* ----------------------------- constants ------------------------------- *)

\* JS null / undefined for id-valued fields (no id is 0)
Null == 0
\* a property that was never assigned (status of a loaded node, ...)
Undefined == "undefined"
\* JS null for object-valued fields (workflow, connectionStart, dragStart)
NullObject == [null |-> TRUE]
\* the canvas scale 1; scales are counted in millionths
ScaleOne == 1000000

Ids == 1..MaxIds
Coords == 0..MaxCoord
Points == [x : Coords, y : Coords]
Handles == {"input", "output"}

\* loadDefaultNodeTypes: the six built-in types and their display names
DefaultNodeTypes ==
    {"manual_trigger", "database_query", "http_request",
     "condition", "email_send", "log"}

DisplayName(type) ==
    CASE type = "manual_trigger" -> "Manual Trigger"
      [] type = "database_query" -> "Database Query"
      [] type = "http_request"   -> "HTTP Request"
      [] type = "condition"      -> "Condition"
      [] type = "email_send"     -> "Send Email"
      [] type = "log"            -> "Log Message"
      [] OTHER                   -> type

\* lists GET /api/node-types/ may answer with (names only)
ApiNodeTypeLists == {{"manual_trigger", "log"}}

\* text/plain payloads a drop event may carry
DroppedTypeNames == {"manual_trigger", "not_a_node_type"}

\* values typed into #workflow-name, #workflow-description and the inputs
\* of a properties form
FieldValues == {"text"}

EmptyConfig == [f \in {} |-> ""]

Restrict(f, S) == [k \in S |-> f[k]]

\* Map.set(key, value)
MapSet(m, key, value) ==
    [k \in (DOMAIN m) \cup {key} |-> IF k = key THEN value ELSE m[k]]

\* Map.delete(key)
MapDelete(m, key) == Restrict(m, (DOMAIN m) \ {key})

EmptyMap == [k \in {} |-> NullObject]

(* ------------------------------- state --------------------------------- *)

VARIABLES
    workflowId,         \* this.options.workflowId
    workflowData,       \* this.options.workflowData
    workflow,           \* this.workflow
    nodes,              \* this.nodes        (Map id -> node)
    connections,        \* this.connections  (Map id -> connection)
    selectedNode,       \* this.selectedNode
    selectedConnection, \* this.selectedConnection
    isDirty,            \* this.isDirty
    isLoading,          \* this.isLoading
    nodeTypes,          \* this.nodeTypes (names)
    canvas,             \* this.canvas: scale, offsets, isDragging, isConnecting,
                        \* connectionStart, dragStart
    initPhase,          \* where async init() stands
    connectionsLayer,   \* ids of the <path> elements in .connections-layer
    listeners,          \* document-level mousemove/mouseup listener pairs
    loadingOverlay,     \* #loading-overlay is displayed
    notifications,      \* notification elements on screen, per type
    pending,            \* HTTP requests in flight (a bag)
    location,           \* window.location, as history.replaceState leaves it
    history             \* what has been sent and answered so far

vars ==
    <<workflowId, workflowData, workflow, nodes, connections, selectedNode,
      selectedConnection, isDirty, isLoading, nodeTypes, canvas, initPhase,
      connectionsLayer, listeners, loadingOverlay, notifications, pending,
      location, history>>

(* --------------------------- small helpers ----------------------------- *)

\* generateId(): 'node_' + 9 random base-36 digits; nothing makes it fresh
GenerateId == Ids

NewNode(typeName, position) ==
    [type     |-> typeName,
     name     |-> DisplayName(typeName),
     position |-> position,
     config   |-> EmptyConfig,
     status   |-> "pending"]

NewConnection(sourceNodeId, sourceHandle, targetNodeId, targetHandle) ==
    [source       |-> sourceNodeId,
     sourceHandle |-> sourceHandle,
     target       |-> targetNodeId,
     targetHandle |-> targetHandle]

\* renderConnection draws a path only when both endpoint nodes exist
CanRender(nodeMap, connection) ==
    /\ connection.source \in DOMAIN nodeMap
    /\ connection.target \in DOMAIN nodeMap

\* ids of the connections deleteNode collects in connectionsToRemove
ConnectionsToRemove(nodeId) ==
    {id \in DOMAIN connections :
        connections[id].source = nodeId \/ connections[id].target = nodeId}

(* ---------------------------- serialisation --------------------------- *)

\* a getWorkflowData() that leaves the config of a node behind
SerializedNodeWithoutConfig(node) ==
    [type     |-> node.type,
     name     |-> node.name,
     position |-> node.position,
     config   |-> EmptyConfig,
     status   |-> Undefined]

\* the entry getWorkflowData() pushes for a node: id (the key here), type,
\* name, position and config; the status is not written
SerializedNode(node) ==
    [type     |-> node.type,
     name     |-> node.name,
     position |-> node.position,
     config   |-> node.config,
     status   |-> Undefined]

\* the entry getWorkflowData() pushes for a connection
SerializedConnection(connection) ==
    [source       |-> connection.source,
     sourceHandle |-> connection.sourceHandle,
     target       |-> connection.target,
     targetHandle |-> connection.targetHandle]

\* definition: { nodes, connections } of getWorkflowData() for two given
\* collections (name and description come from the form fields)
Serialize(nodeMap, connectionMap) ==
    [nodes |-> [id \in DOMAIN nodeMap |-> SerializedNode(nodeMap[id])],
     connections |->
        [id \in DOMAIN connectionMap |-> SerializedConnection(connectionMap[id])]]

GetWorkflowData == Serialize(nodes, connections)

(* -------------------------- init() and loading ------------------------- *)

\* loadWorkflow(): every nodeData / connectionData object is stored as it is
LoadedNodes(data) == data.nodes

LoadedConnections(data) == data.connections

\* this.nodes after loadWorkflow(): nodes.set(nodeData.id, nodeData) for
\* every entry of the definition
LoadWorkflowNodes(nodeMap, data) ==
    [id \in (DOMAIN nodeMap) \cup (DOMAIN LoadedNodes(data)) |->
        IF id \in DOMAIN LoadedNodes(data)
        THEN LoadedNodes(data)[id] ELSE nodeMap[id]]

\* this.connections after loadWorkflow()
LoadWorkflowConnections(connectionMap, data) ==
    [id \in (DOMAIN connectionMap) \cup (DOMAIN LoadedConnections(data)) |->
        IF id \in DOMAIN LoadedConnections(data)
        THEN LoadedConnections(data)[id] ELSE connectionMap[id]]

\* an init() whose loadNodeTypes has no fallback to the built-in types
LoadNodeTypesDoneNoFallback ==
    /\ initPhase = "loadNodeTypes"
    /\ \E outcome \in {"ok", "notOk", "rejected", "badJson"} :
         \E list \in ApiNodeTypeLists :
            /\ nodeTypes' = IF outcome = "ok" THEN list ELSE {}
            /\ history' = [history EXCEPT !.nodeTypes =
                              IF outcome = "ok" THEN "ok" ELSE "failed"]
    /\ nodes' = LoadWorkflowNodes(nodes, workflowData)
    /\ connections' = LoadWorkflowConnections(connections, workflowData)
    /\ connectionsLayer' = connectionsLayer \cup
          {id \in DOMAIN LoadedConnections(workflowData) :
              CanRender(nodes', LoadedConnections(workflowData)[id])}
    /\ initPhase' = "done"
    /\ UNCHANGED <<workflowId, workflowData, location, workflow, selectedNode,
                   selectedConnection, isDirty, isLoading, canvas, listeners,
                   loadingOverlay, notifications, pending>>

\* the continuation of init() after `await this.loadNodeTypes()`:
\* the node types (API list, or the defaults when the response is not OK,
\* the request rejects or the body does not parse), then loadWorkflow() and
\* renderNodePalette()
LoadNodeTypesDone ==
    /\ initPhase = "loadNodeTypes"
    /\ \E outcome \in {"ok", "notOk", "rejected", "badJson"} :
         \E list \in ApiNodeTypeLists :
            /\ nodeTypes' = IF outcome = "ok" THEN list ELSE DefaultNodeTypes
            /\ history' = [history EXCEPT !.nodeTypes =
                              IF outcome = "ok" THEN "ok" ELSE "failed"]
    /\ nodes' = LoadWorkflowNodes(nodes, workflowData)
    /\ connections' = LoadWorkflowConnections(connections, workflowData)
    /\ connectionsLayer' = connectionsLayer \cup
          {id \in DOMAIN LoadedConnections(workflowData) :
              CanRender(nodes', LoadedConnections(workflowData)[id])}
    /\ initPhase' = "done"
    /\ UNCHANGED <<workflowId, workflowData, location, workflow, selectedNode,
                   selectedConnection, isDirty, isLoading, canvas, listeners,
                   loadingOverlay, notifications, pending>>

(* ------------------------- nodes: add, select -------------------------- *)

\* addNode(nodeType, position)
AddNode(typeName, position) ==
    \E nodeId \in GenerateId :
        /\ nodes' = MapSet(nodes, nodeId, NewNode(typeName, position))
        /\ isDirty' = TRUE

\* onDrop(e): the drop listener is on the canvas from setupEventListeners on
OnDrop(typeName, point) ==
    IF typeName \notin nodeTypes
    THEN UNCHANGED vars
    ELSE /\ AddNode(typeName, point)
         /\ UNCHANGED <<workflowId, workflowData, location, workflow, connections,
                        selectedNode, selectedConnection, isLoading, nodeTypes,
                        canvas, initPhase, connectionsLayer, listeners,
                        loadingOverlay, notifications, pending, history>>

Drop == \E typeName \in DroppedTypeNames : \E point \in Points : OnDrop(typeName, point)

\* selectNode that leaves the selected connection alone
SelectNodeKeepsConnection(nodeId) ==
    /\ selectedNode' = nodeId
    /\ UNCHANGED selectedConnection

\* selectNode(nodeId), from the click listener renderNode puts on the node
SelectNode(nodeId) ==
    /\ selectedNode' = nodeId
    /\ selectedConnection' = Null

ClickNode ==
    \E nodeId \in DOMAIN nodes :
        /\ SelectNode(nodeId)
        /\ UNCHANGED <<workflowId, workflowData, location, workflow, nodes, connections,
                       isDirty, isLoading, nodeTypes, canvas, initPhase,
                       connectionsLayer, listeners, loadingOverlay,
                       notifications, pending, history>>

\* selectConnection(connectionId), from the click listener on a rendered path
SelectConnection(connectionId) ==
    /\ selectedConnection' = connectionId
    /\ selectedNode' = Null

ClickConnection ==
    \E connectionId \in connectionsLayer :
        /\ SelectConnection(connectionId)
        /\ UNCHANGED <<workflowId, workflowData, location, workflow, nodes, connections,
                       isDirty, isLoading, nodeTypes, canvas, initPhase,
                       connectionsLayer, listeners, loadingOverlay,
                       notifications, pending, history>>

\* onCanvasClick(e) with e.target the canvas itself: clearSelection()
ClickCanvas ==
    /\ selectedNode' = Null
    /\ selectedConnection' = Null
    /\ UNCHANGED <<workflowId, workflowData, location, workflow, nodes, connections,
                   isDirty, isLoading, nodeTypes, canvas, initPhase,
                   connectionsLayer, listeners, loadingOverlay, notifications,
                   pending, history>>

(* ------------------------------ deletion ------------------------------- *)

\* deleteNode that forgets the connections arriving at the node
DeleteNodeOutgoingOnly(nodeId) ==
    /\ connections' = Restrict(connections,
          {id \in DOMAIN connections : connections[id].source # nodeId})
    /\ connectionsLayer' =
          {id \in connectionsLayer : connections[id].source # nodeId}
    /\ nodes' = MapDelete(nodes, nodeId)
    /\ selectedNode' = Null
    /\ isDirty' = TRUE

\* deleteNode(nodeId): deleteConnection for every incident connection, then
\* the node itself, the selection and the dirty flag
DeleteNode(nodeId) ==
    /\ connections' = Restrict(connections,
                               (DOMAIN connections) \ ConnectionsToRemove(nodeId))
    /\ connectionsLayer' = connectionsLayer \ ConnectionsToRemove(nodeId)
    /\ nodes' = MapDelete(nodes, nodeId)
    /\ selectedNode' = Null
    /\ isDirty' = TRUE

\* keydown with e.key === 'Delete' and a selected node
KeyDelete ==
    /\ selectedNode # Null
    /\ DeleteNode(selectedNode)
    /\ UNCHANGED <<workflowId, workflowData, location, workflow, selectedConnection,
                   isLoading, nodeTypes, canvas, initPhase, listeners,
                   loadingOverlay, notifications, pending, history>>

(* -------------------------- properties panel --------------------------- *)

\* names of the inputs of a properties form: the node name, and the two
\* fields of the log type's config schema
FormFields == {"name", "message", "level"}

\* updateNodeProperty that marks the editor dirty before it looks the node up
UpdateNodePropertyDirtyFirst(nodeId, property, value) ==
    /\ isDirty' = TRUE
    /\ nodes' =
          IF nodeId \notin DOMAIN nodes THEN nodes
          ELSE IF property = "name"
               THEN [nodes EXCEPT ![nodeId].name = value]
               ELSE [nodes EXCEPT ![nodeId].config = MapSet(@, property, value)]

\* updateNodeProperty(nodeId, property, value)
UpdateNodeProperty(nodeId, property, value) ==
    IF nodeId \notin DOMAIN nodes
    THEN UNCHANGED <<nodes, isDirty>>
    ELSE /\ nodes' =
              IF property = "name"
              THEN [nodes EXCEPT ![nodeId].name = value]
              ELSE [nodes EXCEPT ![nodeId].config = MapSet(@, property, value)]
         /\ isDirty' = TRUE

\* the change listener setupPropertiesFormListeners puts on an input of the
\* form built for nodeId
OnNodeFieldChange(nodeId, property, value) ==
    /\ UpdateNodeProperty(nodeId, property, value)
    /\ UNCHANGED <<workflowId, workflowData, location, workflow, connections,
                   selectedNode, selectedConnection, isLoading, nodeTypes,
                   canvas, initPhase, connectionsLayer, listeners,
                   loadingOverlay, notifications, pending, history>>

\* a change event on a properties form.  The listener keeps the nodeId it
\* was created with, and deleteNode only hides the form, so the id may be
\* that of a node that is gone.
ChangeNodeField ==
    \E nodeId \in Ids : \E property \in FormFields : \E value \in FieldValues :
        OnNodeFieldChange(nodeId, property, value)

(* ------------------------------ node drag ------------------------------ *)

\* the mousemove/mouseup listener pairs startNodeDrag and startConnection
\* have put on the document so far
RegisteredListeners == listeners.nodeDrag + listeners.connection

\* startNodeDrag(e, nodeId), from the mousedown listener on the node body.
\* Every call adds one more listener pair to the document.  Every render of
\* a node adds one more mousedown listener to its element, so one mousedown
\* on a node rendered r times makes r calls with the same point: the same as
\* r of these steps in a row.
StartNodeDrag(point, nodeId) ==
    /\ RegisteredListeners < MaxListeners
    /\ canvas' = [canvas EXCEPT
                     !.isDragging = TRUE,
                     !.dragStart = [x |-> point.x, y |-> point.y, nodeId |-> nodeId]]
    /\ listeners' = [listeners EXCEPT !.nodeDrag = @ + 1]

OnMouseDownNode(nodeId, point) ==
    /\ StartNodeDrag(point, nodeId)
    /\ UNCHANGED <<workflowId, workflowData, location, workflow, nodes, connections,
                   selectedNode, selectedConnection, isDirty, isLoading,
                   nodeTypes, initPhase, connectionsLayer, loadingOverlay,
                   notifications, pending, history>>

MouseDownNode ==
    \E nodeId \in DOMAIN nodes : \E point \in Points : OnMouseDownNode(nodeId, point)

\* position of the dragged node after onNodeDrag(e)
DraggedPosition(node, dragStart, point) ==
    [x |-> node.position.x + (point.x - dragStart.x),
     y |-> node.position.y + (point.y - dragStart.y)]

\* onNodeDrag(e) without its last two assignments
OnNodeDragKeepsStart(state, point) ==
    IF ~state.canvas.isDragging \/ state.canvas.dragStart = NullObject
    THEN state
    ELSE LET nodeId == state.canvas.dragStart.nodeId
         IN  [state EXCEPT !.nodes =
                 IF nodeId \in DOMAIN state.nodes
                 THEN [state.nodes EXCEPT ![nodeId].position =
                          DraggedPosition(state.nodes[nodeId],
                                          state.canvas.dragStart, point)]
                 ELSE state.nodes]

\* onNodeDrag(e), on the record of what it reads and writes
OnNodeDrag(state, point) ==
    IF ~state.canvas.isDragging \/ state.canvas.dragStart = NullObject
    THEN state
    ELSE LET nodeId == state.canvas.dragStart.nodeId
         IN  [nodes  |-> IF nodeId \in DOMAIN state.nodes
                         THEN [state.nodes EXCEPT ![nodeId].position =
                                  DraggedPosition(state.nodes[nodeId],
                                                  state.canvas.dragStart, point)]
                         ELSE state.nodes,
              canvas |-> [state.canvas EXCEPT !.dragStart.x = point.x,
                                              !.dragStart.y = point.y]]

\* the document runs every registered onNodeDrag on one mousemove
RECURSIVE NodeDragListeners(_, _, _)
NodeDragListeners(count, state, point) ==
    IF count = 0
    THEN state
    ELSE NodeDragListeners(count - 1, OnNodeDrag(state, point), point)

\* a mousemove on the document (the onConnectionDrag listeners do nothing).
\* Nodes stay on the modelled canvas.
OnMouseMove(point) ==
    LET after == NodeDragListeners(listeners.nodeDrag,
                                   [nodes |-> nodes, canvas |-> canvas], point)
    IN  /\ nodes' = after.nodes
        /\ canvas' = after.canvas
        /\ \A id \in DOMAIN nodes' : nodes'[id].position \in Points
        /\ UNCHANGED <<workflowId, workflowData, location, workflow, connections,
                       selectedNode, selectedConnection, isDirty, isLoading,
                       nodeTypes, initPhase, connectionsLayer, listeners,
                       loadingOverlay, notifications, pending, history>>

MouseMove == \E point \in Points : OnMouseMove(point)

(* ------------------------- connection gestures ------------------------- *)

\* startConnection(e, nodeId, handle, isOutput), from the mousedown listener
\* on a handle (which stops the event before the node's own listeners)
StartConnection(nodeId, handle, isOutput) ==
    IF ~isOutput
    THEN UNCHANGED <<canvas, listeners>>
    ELSE /\ RegisteredListeners < MaxListeners
         /\ canvas' = [canvas EXCEPT
                          !.isConnecting = TRUE,
                          !.connectionStart = [nodeId |-> nodeId, handle |-> handle]]
         /\ listeners' = [listeners EXCEPT !.connection = @ + 1]

OnMouseDownHandle(nodeId, handle) ==
    /\ StartConnection(nodeId, handle, handle = "output")
    /\ UNCHANGED <<workflowId, workflowData, location, workflow, nodes, connections,
                   selectedNode, selectedConnection, isDirty, isLoading,
                   nodeTypes, initPhase, connectionsLayer, loadingOverlay,
                   notifications, pending, history>>

MouseDownHandle ==
    \E nodeId \in DOMAIN nodes : \E handle \in Handles :
        OnMouseDownHandle(nodeId, handle)

\* elements a mouseup can land on: a handle of a rendered node, or anything else
MouseTargets ==
    {[kind |-> "other"]} \cup
    [kind : {"handle"}, nodeId : DOMAIN nodes, handle : Handles]

\* what the mouseup listeners read and write, with the number of
\* addConnection calls made while the event is handled
MouseUpState ==
    [canvas           |-> canvas,
     connections      |-> connections,
     connectionsLayer |-> connectionsLayer,
     isDirty          |-> isDirty,
     added            |-> 0]

\* onNodeDragEnd(e)
OnNodeDragEnd(state) ==
    [state EXCEPT !.canvas.isDragging = FALSE,
                  !.canvas.dragStart  = NullObject,
                  !.isDirty           = TRUE]

\* the same without the comparison of the two node ids
ConnectionToAddAnyNode(state, target) ==
    IF /\ target.kind = "handle"
       /\ target.handle = "input"
    THEN {NewConnection(state.canvas.connectionStart.nodeId,
                        state.canvas.connectionStart.handle,
                        target.nodeId, target.handle)}
    ELSE {}

\* the connection onConnectionEnd(e) asks addConnection for, if any
ConnectionToAdd(state, target) ==
    IF /\ target.kind = "handle"
       /\ target.handle = "input"
       /\ target.nodeId # state.canvas.connectionStart.nodeId
    THEN {NewConnection(state.canvas.connectionStart.nodeId,
                        state.canvas.connectionStart.handle,
                        target.nodeId, target.handle)}
    ELSE {}

\* addConnection(sourceNodeId, sourceHandle, targetNodeId, targetHandle):
\* the states it can leave, one for each id generateId can return
AddConnection(state, connection) ==
    {[state EXCEPT
         !.connections      = MapSet(@, connectionId, connection),
         !.connectionsLayer = IF CanRender(nodes, connection)
                              THEN @ \cup {connectionId}
                              ELSE @,
         !.isDirty          = TRUE,
         !.added            = @ + 1] :
     connectionId \in
         {id \in GenerateId :
              Cardinality((DOMAIN state.connections) \cup {id}) <= MaxConnections}}

\* onConnectionEnd(e) without its two resetting assignments
OnConnectionEndKeepsStart(state, target) ==
    IF ~state.canvas.isConnecting
    THEN {state}
    ELSE IF ConnectionToAdd(state, target) = {}
         THEN {state}
         ELSE UNION {AddConnection(state, connection) :
                         connection \in ConnectionToAdd(state, target)}

\* onConnectionEnd(e): the states it can leave
OnConnectionEnd(state, target) ==
    IF ~state.canvas.isConnecting
    THEN {state}
    ELSE LET added == IF ConnectionToAdd(state, target) = {}
                      THEN {state}
                      ELSE UNION {AddConnection(state, connection) :
                                      connection \in ConnectionToAdd(state, target)}
         IN  {[after EXCEPT !.canvas.isConnecting    = FALSE,
                            !.canvas.connectionStart = NullObject] :
              after \in added}

\* the document runs every registered onNodeDragEnd on one mouseup
RECURSIVE NodeDragEndListeners(_, _)
NodeDragEndListeners(count, state) ==
    IF count = 0
    THEN state
    ELSE NodeDragEndListeners(count - 1, OnNodeDragEnd(state))

\* the document runs every registered onConnectionEnd on one mouseup
RECURSIVE ConnectionEndListeners(_, _, _)
ConnectionEndListeners(count, states, target) ==
    IF count = 0
    THEN states
    ELSE ConnectionEndListeners(
             count - 1,
             UNION {OnConnectionEnd(state, target) : state \in states},
             target)

\* the states one mouseup on target can leave.  removeEventListener is handed
\* a fresh bound function each time, so no listener is ever removed: every
\* onNodeDragEnd and onConnectionEnd registered so far runs.  The two kinds
\* write different fields of the canvas, so their order does not show.
MouseUpOutcomes(target) ==
    ConnectionEndListeners(
        listeners.connection,
        {NodeDragEndListeners(listeners.nodeDrag, MouseUpState)},
        target)

\* a mouseup on the document
OnMouseUp(target) ==
    \E after \in MouseUpOutcomes(target) :
        /\ canvas' = after.canvas
        /\ connections' = after.connections
        /\ connectionsLayer' = after.connectionsLayer
        /\ isDirty' = after.isDirty
        /\ UNCHANGED <<workflowId, workflowData, location, workflow, nodes,
                       selectedNode, selectedConnection, isLoading,
                       nodeTypes, initPhase, listeners, loadingOverlay,
                       notifications, pending, history>>

MouseUp == \E target \in MouseTargets : OnMouseUp(target)

(* -------------------------------- zoom --------------------------------- *)

\* the quotient a / b of two positive numbers, rounded to the nearest
\* millionth as the double arithmetic of the code rounds to the nearest double
RoundedQuotient(a, b) == (2 * a + b) \div (2 * b)

MinOf(a, b) == IF a < b THEN a ELSE b
MaxOf(a, b) == IF a > b THEN a ELSE b

\* the largest and the smallest scale: 3 and 0.1
MaxScale == 3 * ScaleOne
MinScale == ScaleOne \div 10

\* this.canvas.scale * 1.2 and this.canvas.scale / 1.2
TimesOnePointTwo(scale) == RoundedQuotient(scale * 12, 10)
OverOnePointTwo(scale)  == RoundedQuotient(scale * 10, 12)

\* zoomIn without Math.min
ZoomedInUnclamped(scale) == TimesOnePointTwo(scale)

\* the scale zoomIn() assigns
ZoomedIn(scale) == MinOf(TimesOnePointTwo(scale), MaxScale)

\* the scale zoomOut() assigns
ZoomedOut(scale) == MaxOf(OverOnePointTwo(scale), MinScale)

\* zoomIn(), from the click listener on #zoom-in
ZoomIn ==
    /\ canvas' = [canvas EXCEPT !.scale = ZoomedIn(@)]
    /\ UNCHANGED <<workflowId, workflowData, location, workflow, nodes, connections,
                   selectedNode, selectedConnection, isDirty, isLoading,
                   nodeTypes, initPhase, connectionsLayer, listeners,
                   loadingOverlay, notifications, pending, history>>

\* zoomOut(), from the click listener on #zoom-out
ZoomOut ==
    /\ canvas' = [canvas EXCEPT !.scale = ZoomedOut(@)]
    /\ UNCHANGED <<workflowId, workflowData, location, workflow, nodes, connections,
                   selectedNode, selectedConnection, isDirty, isLoading,
                   nodeTypes, initPhase, connectionsLayer, listeners,
                   loadingOverlay, notifications, pending, history>>

\* fitToView(), from the click listener on #zoom-fit
FitToView ==
    /\ canvas' = [canvas EXCEPT !.scale = ScaleOne, !.offsetX = 0, !.offsetY = 0]
    /\ UNCHANGED <<workflowId, workflowData, location, workflow, nodes, connections,
                   selectedNode, selectedConnection, isDirty, isLoading,
                   nodeTypes, initPhase, connectionsLayer, listeners,
                   loadingOverlay, notifications, pending, history>>

(* ---------------------------- construction ----------------------------- *)

NotificationTypes == {"success", "warning", "error"}

\* what the three actions send: POST|PUT /api/workflows/[:id/],
\* POST /api/workflows/:id/test/ and POST /api/workflows/:id/activate/
RequestKinds == {"POST", "PUT", "test", "activate"}

WorkflowIds == 1..MaxWorkflowId

\* a request: its kind and the workflow id in its URL (Null for the bare POST)
Requests == [kind : RequestKinds, id : {Null} \cup WorkflowIds]

NoRequests == [r \in Requests |-> 0]

\* the URL the editor page was opened with, and the one saveWorkflow hands
\* to history.replaceState: `/workflows/${result.id}/edit/`
OpenedUrl == <<"opened", Null, "page">>

EditUrl(id) == <<"workflows", id, "edit">>

\* the body slot when no save request is in flight
NoBody == [none |-> TRUE]

\* the editor after `new WorkflowEditor(options)`: the constructor's fields,
\* setupDOM, setupEventListeners, and init() suspended in loadNodeTypes
InitEditor(id, data) ==
    /\ workflowId = id
    /\ workflowData = data
    /\ workflow = NullObject
    /\ nodes = EmptyMap
    /\ connections = EmptyMap
    /\ selectedNode = Null
    /\ selectedConnection = Null
    /\ isDirty = FALSE
    /\ isLoading = FALSE
    /\ nodeTypes = {}
    /\ canvas = [scale |-> ScaleOne, offsetX |-> 0, offsetY |-> 0,
                 isDragging |-> FALSE, isConnecting |-> FALSE,
                 connectionStart |-> NullObject, dragStart |-> NullObject]
    /\ initPhase = "loadNodeTypes"
    /\ connectionsLayer = {}
    /\ listeners = [nodeDrag |-> 0, connection |-> 0]
    /\ loadingOverlay = FALSE
    /\ notifications = [type \in NotificationTypes |-> 0]
    /\ pending = NoRequests
    /\ location = OpenedUrl
    /\ history = [requests |-> [kind \in RequestKinds |-> 0],
                  saved |-> FALSE, postSucceeded |-> 0,
                  startedWithId |-> id # Null,
                  nodeTypes |-> "pending",
                  body |-> NoBody]

\* a node as getWorkflowData serialises it: no status field
SavedNode(typeName, point) ==
    [type     |-> typeName,
     name     |-> DisplayName(typeName),
     position |-> point,
     config   |-> EmptyConfig,
     status   |-> Undefined]

Origin == [x |-> 0, y |-> 0]

EmptyDefinition == [nodes |-> EmptyMap, connections |-> EmptyMap]

\* two nodes and the connection from the first to the second
ChainDefinition ==
    [nodes |-> [id \in {1, 2} |-> SavedNode("manual_trigger", Origin)],
     connections |-> [id \in {1} |-> NewConnection(1, "output", 2, "input")]]

\* two nodes and no connection
PairDefinition ==
    [nodes |-> [id \in {1, 2} |-> SavedNode("manual_trigger", Origin)],
     connections |-> EmptyMap]

\* a trigger at the origin, a configured log node beside it, and the
\* connection from the first to the second
TriggerLogDefinition ==
    [nodes |-> [id \in {1, 2} |->
                   IF id = 1 THEN SavedNode("manual_trigger", Origin)
                   ELSE [SavedNode("log", [x |-> MaxCoord, y |-> 0])
                            EXCEPT !.config = MapSet(EmptyConfig, "level", "info")]],
     connections |-> [id \in {1} |-> NewConnection(1, "output", 2, "input")]]

\* every definition over the loaded ids whose connections reference its nodes
WellFormedDefinitions ==
    UNION {
      { [nodes |-> [id \in S |-> SavedNode("manual_trigger", Origin)],
         connections |-> c] :
          c \in UNION { [C -> {NewConnection(s, "output", t, "input") : s \in S, t \in S}] :
                          C \in SUBSET (1..MaxLoadedConnections) } } :
      S \in SUBSET (1..MaxLoadedNodes) }

(* ---------------------- notifications and overlay ---------------------- *)

\* number of notification elements on screen
OnScreen ==
    notifications["success"] + notifications["warning"] + notifications["error"]

\* showNotification(message, type): one more element on screen
ShowNotification(type) ==
    notifications' = [notifications EXCEPT ![type] = @ + 1]

\* a showNotification whose error messages stay until they are dismissed
RemoveNotificationUnlessError(type) ==
    /\ type # "error"
    /\ notifications[type] > 0
    /\ notifications' = [notifications EXCEPT ![type] = @ - 1]
    /\ UNCHANGED <<workflowId, workflowData, location, workflow, nodes, connections,
                   selectedNode, selectedConnection, isDirty, isLoading,
                   nodeTypes, canvas, initPhase, connectionsLayer, listeners,
                   loadingOverlay, pending, history>>

\* the setTimeout callback showNotification arms for a notification of the
\* given type: notification.remove()
RemoveNotification(type) ==
    /\ notifications[type] > 0
    /\ notifications' = [notifications EXCEPT ![type] = @ - 1]
    /\ UNCHANGED <<workflowId, workflowData, location, workflow, nodes, connections,
                   selectedNode, selectedConnection, isDirty, isLoading,
                   nodeTypes, canvas, initPhase, connectionsLayer, listeners,
                   loadingOverlay, pending, history>>

NotificationTimeout == \E type \in NotificationTypes : RemoveNotification(type)

(* --------------------------- workflow object --------------------------- *)

\* what a successful save answers with: the stored workflow, with its id.
\* The editor never reads the definition back from this object; the stored
\* one is represented by the empty definition.
ServerResults ==
    [name : {"Untitled Workflow"}, description : {""},
     definition : {EmptyDefinition}, status : {"draft", "active"},
     id : WorkflowIds]

\* the object updateWorkflowProperty creates when this.workflow is null
\* (it has no status and no id yet)
NewWorkflow ==
    [name |-> "Untitled Workflow", description |-> "",
     definition |-> EmptyDefinition, status |-> Undefined, id |-> Null]

\* updateWorkflowProperty that starts from a fresh object on every edit
UpdateWorkflowPropertyReplaces(property, value) ==
    /\ workflow' = [NewWorkflow EXCEPT ![property] = value]
    /\ isDirty' = TRUE

\* updateWorkflowProperty(property, value)
UpdateWorkflowProperty(property, value) ==
    /\ workflow' =
          [(IF workflow = NullObject THEN NewWorkflow ELSE workflow)
              EXCEPT ![property] = value]
    /\ isDirty' = TRUE

\* the fields the two change listeners of setupEventListeners edit
WorkflowFields == {"name", "description"}

\* the change listener of #workflow-name or #workflow-description
OnWorkflowFieldChange(property, value) ==
    /\ UpdateWorkflowProperty(property, value)
    /\ UNCHANGED <<workflowId, workflowData, location, nodes, connections,
                   selectedNode, selectedConnection, isLoading, nodeTypes,
                   canvas, initPhase, connectionsLayer, listeners,
                   loadingOverlay, notifications, pending, history>>

ChangeWorkflowField ==
    \E property \in WorkflowFields : \E value \in FieldValues :
        OnWorkflowFieldChange(property, value)

(* ------------------------------ requests ------------------------------- *)

\* requests of one kind in flight, over the ids 0..id of their URLs
RECURSIVE InFlightUpTo(_, _)
InFlightUpTo(kind, id) ==
    IF id < 0 THEN 0
    ELSE pending[[kind |-> kind, id |-> id]] + InFlightUpTo(kind, id - 1)

InFlight(kind) == InFlightUpTo(kind, MaxWorkflowId)

AllInFlight ==
    InFlight("POST") + InFlight("PUT") + InFlight("test") + InFlight("activate")

RequestsSent ==
    history.requests["POST"] + history.requests["PUT"]
      + history.requests["test"] + history.requests["activate"]

\* every request in flight ends in one notification: there is room for one
\* more on the modelled screen
RoomForNotification == OnScreen + AllInFlight < MaxNotifications

\* fetch(url, ...): the request leaves, a save with the serialised
\* definition as its body; the caps keep the run finite
Fetch(request, body) ==
    /\ RoomForNotification
    /\ AllInFlight < MaxPending
    /\ RequestsSent < MaxRequests
    /\ pending' = [pending EXCEPT ![request] = @ + 1]
    /\ history' = [history EXCEPT !.requests[request.kind] = @ + 1,
                                  !.body = IF body = NoBody THEN @ ELSE body]

\* the answers a request can get: an OK response, a non-OK response, a
\* network error (fetch rejects), or a body response.json() cannot parse
Outcomes == {"ok", "notOk", "rejected", "badJson"}

(* -------------------------------- save --------------------------------- *)

\* a save that always creates
SaveRequestAlwaysPost == [kind |-> "POST", id |-> Null]

\* the request saveWorkflow builds from options.workflowId
SaveRequest ==
    IF workflowId # Null
    THEN [kind |-> "PUT", id |-> workflowId]
    ELSE [kind |-> "POST", id |-> Null]

\* saveWorkflow without its `if (this.isLoading) return`
SaveWorkflowUnguarded ==
    /\ isLoading' = TRUE
    /\ loadingOverlay' = TRUE
    /\ Fetch(SaveRequest, GetWorkflowData)
    /\ UNCHANGED <<workflowId, workflowData, location, workflow, nodes, connections,
                   selectedNode, selectedConnection, isDirty, nodeTypes,
                   canvas, initPhase, connectionsLayer, listeners,
                   notifications>>

\* saveWorkflow(), from #save-btn or Ctrl+S, up to `await fetch(...)`
SaveWorkflow ==
    IF isLoading
    THEN UNCHANGED vars
    ELSE /\ isLoading' = TRUE
         /\ loadingOverlay' = TRUE
         /\ Fetch(SaveRequest, GetWorkflowData)
         /\ UNCHANGED <<workflowId, workflowData, location, workflow, nodes, connections,
                        selectedNode, selectedConnection, isDirty, nodeTypes,
                        canvas, initPhase, connectionsLayer, listeners,
                        notifications>>

\* a save whose failure path also clears the dirty flag
SaveSettledCleansOnError(request, outcome) ==
    /\ pending[request] > 0
    /\ pending' = [pending EXCEPT ![request] = @ - 1]
    /\ IF outcome = "ok"
       THEN \E result \in ServerResults :
               /\ workflow' = result
               /\ workflowId' = result.id
               /\ isDirty' = FALSE
               /\ ShowNotification("success")
               /\ location' = IF workflowId' = Null
                               THEN EditUrl(result.id) ELSE location
               /\ history' = [history EXCEPT
                     !.saved = TRUE,
                     !.postSucceeded = IF request.kind = "POST" THEN @ + 1 ELSE @,
                     !.body = NoBody]
       ELSE /\ ShowNotification("error")
            /\ isDirty' = FALSE
            /\ history' = [history EXCEPT !.body = NoBody]
            /\ UNCHANGED <<workflow, workflowId, location>>
    /\ isLoading' = FALSE
    /\ loadingOverlay' = FALSE

\* a save that sends its request again when the answer is a failure
SaveSettledRetries(request, outcome) ==
    IF outcome = "ok"
    THEN /\ pending[request] > 0
         /\ pending' = [pending EXCEPT ![request] = @ - 1]
         /\ \E result \in ServerResults :
               /\ workflow' = result
               /\ workflowId' = result.id
               /\ isDirty' = FALSE
               /\ ShowNotification("success")
               /\ location' = IF workflowId' = Null
                               THEN EditUrl(result.id) ELSE location
               /\ history' = [history EXCEPT
                     !.saved = TRUE,
                     !.postSucceeded = IF request.kind = "POST" THEN @ + 1 ELSE @,
                     !.body = NoBody]
         /\ isLoading' = FALSE
         /\ loadingOverlay' = FALSE
    ELSE /\ pending[request] > 0
         /\ RequestsSent < MaxRequests
         /\ history' = [history EXCEPT !.requests[request.kind] = @ + 1]
         /\ UNCHANGED <<pending, workflow, workflowId, isDirty, notifications,
                        isLoading, loadingOverlay, location>>

\* a save with no finally block: only the success path releases the flag
SaveSettledNoFinally(request, outcome) ==
    /\ pending[request] > 0
    /\ pending' = [pending EXCEPT ![request] = @ - 1]
    /\ IF outcome = "ok"
       THEN \E result \in ServerResults :
               /\ workflow' = result
               /\ workflowId' = result.id
               /\ isDirty' = FALSE
               /\ ShowNotification("success")
               /\ location' = IF workflowId' = Null
                               THEN EditUrl(result.id) ELSE location
               /\ history' = [history EXCEPT
                     !.saved = TRUE,
                     !.postSucceeded = IF request.kind = "POST" THEN @ + 1 ELSE @,
                     !.body = NoBody]
               /\ isLoading' = FALSE
               /\ loadingOverlay' = FALSE
       ELSE /\ ShowNotification("error")
            /\ history' = [history EXCEPT !.body = NoBody]
            /\ UNCHANGED <<workflow, workflowId, isDirty, isLoading,
                           loadingOverlay, location>>

\* saveWorkflow() after its awaits: the try block's tail, catch and finally.
\* The replaceState call sits behind `!this.options.workflowId`, tested
\* after the id was assigned from result.id.
SaveSettled(request, outcome) ==
    /\ pending[request] > 0
    /\ pending' = [pending EXCEPT ![request] = @ - 1]
    /\ IF outcome = "ok"
       THEN \E result \in ServerResults :
               /\ workflow' = result
               /\ workflowId' = result.id
               /\ isDirty' = FALSE
               /\ ShowNotification("success")
               /\ location' = IF workflowId' = Null
                               THEN EditUrl(result.id) ELSE location
               /\ history' = [history EXCEPT
                     !.saved = TRUE,
                     !.postSucceeded = IF request.kind = "POST" THEN @ + 1 ELSE @,
                     !.body = NoBody]
       ELSE /\ ShowNotification("error")
            /\ history' = [history EXCEPT !.body = NoBody]
            /\ UNCHANGED <<workflow, workflowId, isDirty, location>>
    /\ isLoading' = FALSE
    /\ loadingOverlay' = FALSE

SaveResponse ==
    \E request \in {r \in Requests : r.kind \in {"POST", "PUT"}} :
      \E outcome \in Outcomes :
        /\ SaveSettled(request, outcome)
        /\ UNCHANGED <<workflowData, nodes, connections, selectedNode,
                       selectedConnection, nodeTypes, canvas, initPhase,
                       connectionsLayer, listeners>>

(* -------------------------------- test --------------------------------- *)

\* testWorkflow without its `if (!this.options.workflowId)` check
TestWorkflowUnguarded ==
    /\ loadingOverlay' = TRUE
    /\ Fetch([kind |-> "test", id |-> workflowId], NoBody)
    /\ UNCHANGED notifications
    /\ UNCHANGED <<workflowId, workflowData, location, workflow, nodes, connections,
                   selectedNode, selectedConnection, isDirty, isLoading,
                   nodeTypes, canvas, initPhase, connectionsLayer, listeners>>

\* testWorkflow(), from #test-btn or Ctrl+Shift+Enter, up to `await fetch`
TestWorkflow ==
    /\ IF workflowId = Null
       THEN /\ RoomForNotification
            /\ ShowNotification("warning")
            /\ UNCHANGED <<loadingOverlay, pending, history>>
       ELSE /\ loadingOverlay' = TRUE
            /\ Fetch([kind |-> "test", id |-> workflowId], NoBody)
            /\ UNCHANGED notifications
    /\ UNCHANGED <<workflowId, workflowData, location, workflow, nodes, connections,
                   selectedNode, selectedConnection, isDirty, isLoading,
                   nodeTypes, canvas, initPhase, connectionsLayer, listeners>>

\* testWorkflow() after its awaits; showTestResults only rewrites the log
\* panel and the nodes' CSS classes
TestSettled(request, outcome) ==
    /\ pending[request] > 0
    /\ pending' = [pending EXCEPT ![request] = @ - 1]
    /\ ShowNotification(IF outcome = "ok" THEN "success" ELSE "error")
    /\ loadingOverlay' = FALSE

TestResponse ==
    \E request \in {r \in Requests : r.kind = "test"} : \E outcome \in Outcomes :
        /\ TestSettled(request, outcome)
        /\ UNCHANGED <<workflowId, workflowData, location, workflow, nodes, connections,
                       selectedNode, selectedConnection, isDirty, isLoading,
                       nodeTypes, canvas, initPhase, connectionsLayer,
                       listeners, history>>

(* ------------------------------- deploy -------------------------------- *)

\* deployWorkflow(), from #deploy-btn, up to `await fetch`; `confirmed` is
\* the answer to confirm()
DeployWorkflow ==
    \E confirmed \in BOOLEAN :
        /\ IF workflowId = Null
           THEN /\ RoomForNotification
                /\ ShowNotification("warning")
                /\ UNCHANGED <<pending, history>>
           ELSE IF confirmed
                THEN /\ Fetch([kind |-> "activate", id |-> workflowId], NoBody)
                     /\ UNCHANGED notifications
                ELSE UNCHANGED <<notifications, pending, history>>
        /\ UNCHANGED <<workflowId, workflowData, location, workflow, nodes, connections,
                       selectedNode, selectedConnection, isDirty, isLoading,
                       nodeTypes, canvas, initPhase, connectionsLayer,
                       listeners, loadingOverlay>>

\* deployWorkflow() after its awaits.  `this.workflow.status = 'active'`
\* throws a TypeError when this.workflow is still null; the catch block
\* turns it into the error notification.
DeploySettled(request, outcome) ==
    /\ pending[request] > 0
    /\ pending' = [pending EXCEPT ![request] = @ - 1]
    /\ IF outcome = "ok" /\ workflow # NullObject
       THEN /\ workflow' = [workflow EXCEPT !.status = "active"]
            /\ ShowNotification("success")
       ELSE /\ ShowNotification("error")
            /\ UNCHANGED workflow

DeployResponse ==
    \E request \in {r \in Requests : r.kind = "activate"} : \E outcome \in Outcomes :
        /\ DeploySettled(request, outcome)
        /\ UNCHANGED <<workflowId, workflowData, location, nodes, connections,
                       selectedNode, selectedConnection, isDirty, isLoading,
                       nodeTypes, canvas, initPhase, connectionsLayer,
                       listeners, loadingOverlay, history>>

(* ---------------------------- specifications --------------------------- *)

\* the graph editor: a new workflow or a loaded chain, every pointer and
\* keyboard event that edits the graph
GraphInit == \E data \in {EmptyDefinition, ChainDefinition} : InitEditor(Null, data)

GraphNext ==
    \/ LoadNodeTypesDone
    \/ Drop
    \/ ClickNode
    \/ ClickConnection
    \/ ClickCanvas
    \/ MouseDownNode
    \/ MouseMove
    \/ MouseDownHandle
    \/ MouseUp
    \/ KeyDelete

GraphSpec == GraphInit /\ [][GraphNext]_vars

\* deleteNode on every loaded graph: open any well-formed definition, select
\* nodes and connections, press Delete
DeleteInit == \E data \in WellFormedDefinitions : InitEditor(Null, data)

DeleteNext ==
    \/ LoadNodeTypesDone
    \/ ClickNode
    \/ ClickConnection
    \/ KeyDelete

DeleteSpec == DeleteInit /\ [][DeleteNext]_vars

\* the properties panel: a new workflow or a loaded trigger-and-log graph;
\* nodes are selected, edited through the form, and deleted
PanelInit ==
    \E data \in {EmptyDefinition, TriggerLogDefinition} : InitEditor(Null, data)

PanelNext ==
    \/ LoadNodeTypesDone
    \/ ClickNode
    \/ ClickConnection
    \/ ChangeNodeField
    \/ KeyDelete

PanelSpec == PanelInit /\ [][PanelNext]_vars

\* the graphs getWorkflowData is called on: a new workflow or the loaded
\* trigger-and-log graph, with nodes dropped on the canvas and deleted
RoundTripInit ==
    \E data \in {EmptyDefinition, TriggerLogDefinition} : InitEditor(Null, data)

RoundTripNext ==
    \/ LoadNodeTypesDone
    \/ Drop
    \/ ClickNode
    \/ KeyDelete

RoundTripSpec == RoundTripInit /\ [][RoundTripNext]_vars

\* the editor and its backend: opened without or with a workflow id, on an
\* empty definition or on the chain; the three asynchronous actions with
\* every answer; and the edits made while they run (rename, select, delete)
Init ==
    \E id \in {Null} \cup WorkflowIds :
        \E data \in {EmptyDefinition, ChainDefinition} : InitEditor(id, data)

Next ==
    \/ LoadNodeTypesDone
    \/ SaveWorkflow
    \/ SaveResponse
    \/ TestWorkflow
    \/ TestResponse
    \/ DeployWorkflow
    \/ DeployResponse
    \/ NotificationTimeout
    \/ ChangeWorkflowField
    \/ ClickNode
    \/ KeyDelete

Spec == Init /\ [][Next]_vars

\* the same editor where every save request is answered and its continuation
\* runs, and every notification timer fires
FairSpec ==
    /\ Init
    /\ [][Next]_vars
    /\ WF_vars(SaveResponse)
    /\ WF_vars(NotificationTimeout)

\* dragging and saving: the loaded chain of a new workflow, node drags, and
\* saves with every answer
DragInit == InitEditor(Null, ChainDefinition)

DragNext ==
    \/ LoadNodeTypesDone
    \/ MouseDownNode
    \/ MouseMove
    \/ MouseUp
    \/ SaveWorkflow
    \/ SaveResponse
    \/ NotificationTimeout

DragSpec == DragInit /\ [][DragNext]_vars

(* drags alone: mousedown on a node, mousemove and mouseup on the document *)

MoveInit == InitEditor(Null, ChainDefinition)

MoveNext ==
    \/ LoadNodeTypesDone
    \/ MouseDownNode
    \/ MouseMove
    \/ MouseUp

MoveSpec == MoveInit /\ [][MoveNext]_vars

(* connection gestures, mousedown on a node, selection and deletion *)

ConnectInit == \E data \in {PairDefinition, ChainDefinition} : InitEditor(Null, data)

ConnectNext ==
    \/ LoadNodeTypesDone
    \/ MouseDownNode
    \/ MouseDownHandle
    \/ MouseUp
    \/ ClickNode
    \/ ClickConnection
    \/ ClickCanvas
    \/ KeyDelete

ConnectSpec == ConnectInit /\ [][ConnectNext]_vars

(* the zoom buttons, with clicks on the loaded nodes and connection *)

ZoomInit == InitEditor(Null, ChainDefinition)

ZoomNext ==
    \/ LoadNodeTypesDone
    \/ ClickNode
    \/ ClickConnection
    \/ ClickCanvas
    \/ ZoomIn
    \/ ZoomOut
    \/ FitToView

ZoomSpec == ZoomInit /\ [][ZoomNext]_vars

\* the editor, its backend and the notification timers: the three
\* asynchronous actions with every answer, where the timer of every
\* notification fires
TimerInit == \E id \in {Null} \cup WorkflowIds : InitEditor(id, EmptyDefinition)

TimerNext ==
    \/ LoadNodeTypesDone
    \/ SaveWorkflow
    \/ SaveResponse
    \/ TestWorkflow
    \/ TestResponse
    \/ DeployWorkflow
    \/ DeployResponse
    \/ NotificationTimeout

TimerSpec ==
    /\ TimerInit
    /\ [][TimerNext]_vars
    /\ \A type \in NotificationTypes : WF_vars(RemoveNotification(type))

(* ------------------------------ properties ----------------------------- *)

Incident(connection, nodeId) ==
    connection.source = nodeId \/ connection.target = nodeId

\* C1: deleteNode(n) cascades.  After the Delete key has run deleteNode on the
\* selected node n, n is not in the node collection, no connection has n as
\* its source or target, and every other node and every connection that was
\* not incident to n is still there, unchanged (and nothing new appeared).
C1_DeleteNodeCascades ==
    [][KeyDelete =>
        LET n == selectedNode IN
        /\ n \notin DOMAIN nodes'
        /\ \A id \in DOMAIN connections' : ~Incident(connections'[id], n)
        /\ DOMAIN nodes' = (DOMAIN nodes) \ {n}
        /\ \A m \in DOMAIN nodes' : nodes'[m] = nodes[m]
        /\ DOMAIN connections' =
              {id \in DOMAIN connections : ~Incident(connections[id], n)}
        /\ \A id \in DOMAIN connections' : connections'[id] = connections[id]
    ]_vars

\* C1 witness: a loaded node that had a connection is gone, while another
\* node and a connection that did not touch it are still in the collections
C1_Witness ==
    /\ initPhase = "done"
    /\ \E n \in DOMAIN workflowData.nodes :
          /\ n \notin DOMAIN nodes
          /\ \E id \in DOMAIN workflowData.connections :
                Incident(workflowData.connections[id], n)
    /\ DOMAIN nodes # {}
    /\ DOMAIN connections # {}

\* C2: no dangling connections.  In every state reachable through the UI,
\* every connection has its source and its target in the node collection.
C2_NoDanglingConnections ==
    \A id \in DOMAIN connections :
        /\ connections[id].source \in DOMAIN nodes
        /\ connections[id].target \in DOMAIN nodes

SavesInFlight == InFlight("POST") + InFlight("PUT")

SaveRequestsSent == history.requests["POST"] + history.requests["PUT"]

\* a save request is answered in this step
SaveAnswered == SavesInFlight' < SavesInFlight

\* a save request is answered in this step, and not with success
SaveFailed == SaveAnswered /\ notifications'["success"] <= notifications["success"]

\* C3: overlapping saves are excluded by the busy flag.  At most one save
\* request is in flight in every reachable state, and while isLoading is true
\* no step sends a save request and a saveWorkflow call changes nothing.
C3_SavesDoNotOverlap ==
    /\ [](SavesInFlight <= 1)
    /\ [][isLoading =>
            /\ SaveRequestsSent' = SaveRequestsSent
            /\ (SaveWorkflow => UNCHANGED vars)]_vars

\* C3 witness: a save is in flight, the busy flag is up, and nothing but the
\* flag keeps a second saveWorkflow call from sending a request
C3_Witness ==
    /\ isLoading
    /\ SavesInFlight = 1
    /\ AllInFlight < MaxPending
    /\ RequestsSent < MaxRequests

\* C4: asynchronous requests block the loading overlay.  Whenever a save,
\* test or deploy request is in flight, the loading overlay is shown.
C4_OverlayWhileInFlight == AllInFlight > 0 => loadingOverlay

\* C5: a failed save persists no error state.  The call that sends the save
\* request and the continuation that handles its failure both leave the
\* workflow object, options.workflowId, isDirty, the nodes and the connections
\* as they are; after the failure isLoading is false and exactly one more
\* error notification is on screen.
C5_FailedSaveLeavesState ==
    [][/\ (SavesInFlight' > SavesInFlight \/ SaveFailed) =>
              UNCHANGED <<workflow, workflowId, isDirty, nodes, connections>>
       /\ SaveFailed =>
              /\ ~isLoading'
              /\ notifications' = [notifications EXCEPT !["error"] = @ + 1]
    ]_vars

\* C5 witness: the only request sent was a save, it failed, and the editor is
\* dirty with a non-empty graph, idle, showing the error
C5_Witness ==
    /\ SaveRequestsSent = 1
    /\ RequestsSent = 1
    /\ SavesInFlight = 0
    /\ ~history.saved
    /\ notifications["error"] = 1
    /\ ~isLoading
    /\ isDirty
    /\ DOMAIN nodes # {}

\* C6: no retry.  No step sends more than one request, and a step that sends
\* one is a saveWorkflow, testWorkflow or deployWorkflow call: the
\* continuations that handle the answers never send.
C6_NoRetry ==
    [][/\ RequestsSent' <= RequestsSent + 1
       /\ \A kind \in RequestKinds :
             history.requests'[kind] >= history.requests[kind]
       /\ RequestsSent' > RequestsSent =>
             (SaveWorkflow \/ TestWorkflow \/ DeployWorkflow)
    ]_vars

\* C6 witness: one request was sent, it failed, and nothing is in flight
C6_Witness ==
    /\ RequestsSent = 1
    /\ AllInFlight = 0
    /\ notifications["error"] = 1

\* C7: the busy flag is always released.  Provided every save request is
\* answered, whenever isLoading is true it later becomes false.
C7_BusyFlagReleased == isLoading ~> ~isLoading

\* C7 witness: a save was sent and answered with a failure, and the flag is down
C7_Witness ==
    /\ SaveRequestsSent > 0
    /\ SavesInFlight = 0
    /\ ~history.saved
    /\ ~isLoading

\* C8: create-then-update.  A save request is a POST without id exactly when
\* options.workflowId is unset and otherwise a PUT to options.workflowId; a
\* successful save leaves options.workflowId set to the id of the stored
\* result; so at most one POST ever succeeds and after a successful save the
\* id stays set (every later save is a PUT to it).
C8_CreateThenUpdate ==
    /\ [](/\ history.postSucceeded <= 1
          /\ history.saved => (workflowId # Null /\ workflow # NullObject))
    /\ [][/\ \A r \in Requests :
                (r.kind \in {"POST", "PUT"} /\ pending'[r] > pending[r]) =>
                    /\ r.id = workflowId
                    /\ (r.kind = "POST") <=> (workflowId = Null)
          /\ (SaveAnswered /\ ~SaveFailed) =>
                (workflowId' # Null /\ workflowId' = workflow'.id)
          /\ history.saved => (workflowId' # Null)
       ]_vars

\* C8 witness: a POST has succeeded and a PUT was sent after it
C8_Witness ==
    /\ history.postSucceeded = 1
    /\ history.requests["PUT"] > 0

\* C9: test and deploy require a saved workflow.  With options.workflowId
\* unset, testWorkflow and deployWorkflow send nothing, show one warning and
\* leave workflow, graph, dirty flag and busy flag alone; and no test or
\* activate request has been sent for a workflow that started without an id
\* unless a save has succeeded.
C9_TestAndDeployNeedId ==
    /\ []((history.requests["test"] + history.requests["activate"] > 0
           /\ ~history.startedWithId) => history.saved)
    /\ [][workflowId = Null =>
            /\ history.requests'["test"] = history.requests["test"]
            /\ history.requests'["activate"] = history.requests["activate"]
            /\ (TestWorkflow \/ DeployWorkflow) =>
                  /\ notifications' = [notifications EXCEPT !["warning"] = @ + 1]
                  /\ UNCHANGED <<pending, history, workflow, workflowId, nodes,
                                 connections, isDirty, isLoading>>
       ]_vars

\* C9 witness: the warning is on screen, no id, nothing was ever sent
C9_Witness ==
    /\ workflowId = Null
    /\ notifications["warning"] = 1
    /\ RequestsSent = 0
    /\ DOMAIN nodes # {}

\* C10: deploy activates the workflow.  Whenever an activate request is
\* answered with an OK response, the workflow's status becomes 'active' and
\* one more success notification (and no error notification) is shown.
C10_DeployActivates ==
    [][(\E request \in {r \in Requests : r.kind = "activate"} :
            DeploySettled(request, "ok")) =>
          /\ workflow' # NullObject
          /\ workflow'.status = "active"
          /\ notifications' = [notifications EXCEPT !["success"] = @ + 1]
    ]_vars

\* C11: the workflow object is created implicitly on the first property
\* edit.  If the workflow is null when updateWorkflowProperty(p, v) runs,
\* afterwards it exists with name 'Untitled Workflow', description '' and an
\* empty definition, except that p is v; if it exists already, only p
\* changes; in both cases isDirty is true afterwards and the nodes and the
\* connections are unchanged.
C11_WorkflowCreatedOnFirstEdit ==
    [][\A p \in WorkflowFields : \A v \in FieldValues :
          OnWorkflowFieldChange(p, v) =>
            /\ workflow' # NullObject
            /\ workflow'[p] = v
            /\ IF workflow = NullObject
               THEN /\ p # "name" => workflow'.name = "Untitled Workflow"
                    /\ p # "description" => workflow'.description = ""
                    /\ workflow'.definition =
                          [nodes |-> EmptyMap, connections |-> EmptyMap]
               ELSE /\ DOMAIN workflow' = DOMAIN workflow
                    /\ \A f \in (DOMAIN workflow) \ {p} : workflow'[f] = workflow[f]
            /\ isDirty'
            /\ UNCHANGED <<nodes, connections>>
    ]_vars

\* C11 witness: an editor with a loaded graph whose workflow object was
\* created by one edit and changed by a second one, never saved
C11_Witness ==
    /\ workflow # NullObject
    /\ workflow.name = "text"
    /\ workflow.description = "text"
    /\ workflow.id = Null
    /\ ~history.saved
    /\ isDirty
    /\ DOMAIN nodes # {}

\* C12: every node has an execution status.  In every reachable state every
\* node of the node collection, whether addNode created it or loadWorkflow
\* loaded it from a serialised definition, has a status that is one of
\* pending, running, succeeded, failed.
C12_NodesHaveStatus ==
    \A id \in DOMAIN nodes :
        nodes[id].status \in {"pending", "running", "succeeded", "failed"}

\* C13: the saved definition is the serialised collections and round-trips.
\* In every state, getWorkflowData has exactly one entry per node, with its
\* id, type, name, position and config, and one per connection, with its id,
\* source, sourceHandle, target and targetHandle; and loadWorkflow run by a
\* fresh editor on that definition gives the same node ids, the same type,
\* name, position and config for each node, and the same connections.
C13_RoundTrip ==
    LET data              == GetWorkflowData
        loadedNodes       == LoadWorkflowNodes(EmptyMap, data)
        loadedConnections == LoadWorkflowConnections(EmptyMap, data)
    IN  /\ DOMAIN data.nodes = DOMAIN nodes
        /\ \A id \in DOMAIN nodes :
              /\ data.nodes[id].type = nodes[id].type
              /\ data.nodes[id].name = nodes[id].name
              /\ data.nodes[id].position = nodes[id].position
              /\ data.nodes[id].config = nodes[id].config
        /\ DOMAIN data.connections = DOMAIN connections
        /\ \A id \in DOMAIN connections :
              /\ data.connections[id].source = connections[id].source
              /\ data.connections[id].sourceHandle = connections[id].sourceHandle
              /\ data.connections[id].target = connections[id].target
              /\ data.connections[id].targetHandle = connections[id].targetHandle
        /\ DOMAIN loadedNodes = DOMAIN nodes
        /\ \A id \in DOMAIN nodes :
              /\ loadedNodes[id].type = nodes[id].type
              /\ loadedNodes[id].name = nodes[id].name
              /\ loadedNodes[id].position = nodes[id].position
              /\ loadedNodes[id].config = nodes[id].config
        /\ loadedConnections = connections

\* C13 witness: a graph with a node addNode created away from the origin, a
\* loaded node with a non-empty config, and a connection
C13_Witness ==
    /\ \E id \in DOMAIN nodes :
          nodes[id].status = "pending" /\ nodes[id].position # Origin
    /\ \E id \in DOMAIN nodes :
          nodes[id].status = Undefined /\ nodes[id].config # EmptyConfig
    /\ DOMAIN connections # {}

\* C14: node-type loading falls back and precedes workflow loading.  Once
\* the GET /api/node-types/ request has failed (rejected, non-OK, unreadable
\* body) the node-type collection is the six built-in types; and as long as
\* loadNodeTypes has not completed, loadWorkflow has not run: no node type
\* is known, the collections are empty, and init() has not gone past it.
C14_NodeTypesFallbackThenLoad ==
    /\ history.nodeTypes = "failed" =>
          nodeTypes = {"manual_trigger", "database_query", "http_request",
                       "condition", "email_send", "log"}
    /\ history.nodeTypes = "pending" =>
          /\ initPhase = "loadNodeTypes"
          /\ nodeTypes = {}
          /\ DOMAIN nodes = {}
          /\ DOMAIN connections = {}
    /\ initPhase = "done" => history.nodeTypes # "pending"

\* C14 witness: the node-type request failed, the workflow was loaded after
\* it, and a node of a built-in type was dropped on the canvas
C14_Witness ==
    /\ history.nodeTypes = "failed"
    /\ initPhase = "done"
    /\ \E id \in DOMAIN nodes : nodes[id].status = Undefined
    /\ \E id \in DOMAIN nodes : nodes[id].status = "pending"

\* C15: property-panel edits mutate only the edited field.  When
\* updateNodeProperty(n, p, v) runs for a node n of the collection, with p =
\* 'name' only the name of n changes, otherwise only config[p] of n; no other
\* node, no connection and no selection changes, and isDirty is true
\* afterwards.  When n is not in the collection nothing changes at all.
C15_EditChangesOnlyTheField ==
    [][\A n \in Ids : \A p \in FormFields : \A v \in FieldValues :
          OnNodeFieldChange(n, p, v) =>
            IF n \notin DOMAIN nodes
            THEN UNCHANGED vars
            ELSE /\ DOMAIN nodes' = DOMAIN nodes
                 /\ \A m \in (DOMAIN nodes) \ {n} : nodes'[m] = nodes[m]
                 /\ nodes'[n].type = nodes[n].type
                 /\ nodes'[n].position = nodes[n].position
                 /\ nodes'[n].status = nodes[n].status
                 /\ IF p = "name"
                    THEN /\ nodes'[n].name = v
                         /\ nodes'[n].config = nodes[n].config
                    ELSE /\ nodes'[n].name = nodes[n].name
                         /\ DOMAIN nodes'[n].config = (DOMAIN nodes[n].config) \cup {p}
                         /\ nodes'[n].config[p] = v
                         /\ \A f \in (DOMAIN nodes[n].config) \ {p} :
                               nodes'[n].config[f] = nodes[n].config[f]
                 /\ UNCHANGED <<connections, selectedNode, selectedConnection>>
                 /\ isDirty'
    ]_vars

\* C15 witness: the log node was renamed and given a message while its
\* level, the other node and the connection are as loaded
C15_Witness ==
    /\ initPhase = "done"
    /\ DOMAIN nodes = DOMAIN workflowData.nodes
    /\ \E n \in DOMAIN nodes :
          /\ nodes[n].name = "text"
          /\ DOMAIN nodes[n].config = {"level", "message"}
          /\ nodes[n].config["message"] = "text"
          /\ nodes[n].config["level"] = "info"
          /\ \E m \in (DOMAIN nodes) \ {n} : nodes[m] = workflowData.nodes[m]
    /\ connections = workflowData.connections
    /\ isDirty

\* C16: notifications are transient.  For each type, provided the timers
\* fire, either no notification of the type is on screen again and again, or
\* notifications of the type are removed again and again: none stays.  And a
\* step that shows an error notification leaves no other trace of the
\* failure: workflow, id, URL, graph, selection, dirty flag, node types and
\* canvas state are as before, and neither the busy flag nor the overlay
\* is raised by it.
C16_NotificationsTransient ==
    /\ \A type \in NotificationTypes :
          \/ []<>(notifications[type] = 0)
          \/ []<><<notifications'[type] < notifications[type]>>_vars
    /\ [][notifications'["error"] > notifications["error"] =>
            /\ UNCHANGED <<workflowId, workflowData, location, workflow, nodes,
                           connections, selectedNode, selectedConnection,
                           isDirty, nodeTypes, canvas, initPhase,
                           connectionsLayer, listeners>>
            /\ isLoading' => isLoading
            /\ loadingOverlay' => loadingOverlay
       ]_vars

\* C16 witness: a save has failed and its error notification is gone again
C16_Witness ==
    /\ SaveRequestsSent = 1
    /\ RequestsSent = 1
    /\ AllInFlight = 0
    /\ ~history.saved
    /\ OnScreen = 0

\* C17: update the URL if this was a new workflow.  When a save that was
\* sent with options.workflowId unset (a POST) is answered with success, the
\* browser URL becomes /workflows/<id>/edit/ for the id of the result; when
\* a save of a workflow that had an id (a PUT) is answered, the URL is not
\* touched.
C17_UrlFollowsNewId ==
    [][/\ (/\ InFlight("POST")' < InFlight("POST")
            /\ notifications'["success"] > notifications["success"]) =>
              location' = <<"workflows", workflowId', "edit">>
       /\ InFlight("PUT")' < InFlight("PUT") => location' = location
    ]_vars

\* C18: the dirty flag never hides unsaved edits.  Every step that changes
\* the nodes or the connections of a loaded editor leaves isDirty true, and
\* whenever the answer to a save leaves isDirty false, the collections are
\* the definition that save request carried: so in every state where isDirty
\* is false the graph is the one last saved (or the one loaded).
C18_CleanMeansSaved ==
    [][/\ (initPhase = "done" /\ <<nodes, connections>>' # <<nodes, connections>>)
              => isDirty'
       /\ (SaveAnswered /\ ~SaveFailed /\ ~isDirty')
              => Serialize(nodes', connections') = history.body
    ]_vars

\* C19: a save never overwrites an existing workflow with a graph that was
\* not loaded yet.  For an editor constructed with a workflowId and a
\* non-empty workflowData, every step that sends a save request happens after
\* loadWorkflow has run, and the request carries the collections as they are
\* then.
C19_SaveAfterLoad ==
    [][(/\ SaveRequestsSent' > SaveRequestsSent
        /\ history.startedWithId
        /\ DOMAIN workflowData.nodes # {}) =>
            /\ initPhase = "done"
            /\ history'.body = Serialize(nodes, connections)
    ]_vars

\* C20: drag handlers are removed when a drag ends.  A mousemove or mouseup
\* on the document while no node is being dragged (and no connection is
\* being drawn) leaves the editor state unchanged; in particular it does not
\* set isDirty back to true after a save has cleared it.
C20_DragHandlersRemoved ==
    [][((MouseMove \/ MouseUp) /\ ~canvas.isDragging /\ ~canvas.isConnecting)
          => UNCHANGED vars
    ]_vars

(* C21: a drag moves the node by exactly the mouse displacement.  A
   mousedown on node n at p0 leaves every position alone and makes p0 the
   drag's reference point; a mousemove at p while n is dragged adds
   p - (reference point) to the position of n, changes no other node and
   makes p the reference point, however many onNodeDrag listeners the
   document holds.  Summed over the moves of one drag, the position of n
   after a mousemove at p is its position at mousedown plus p - p0. *)
C21_DragFollowsMouse ==
    [][/\ \A nodeId \in Ids : \A point \in Points :
              OnMouseDownNode(nodeId, point) =>
                  /\ nodes' = nodes
                  /\ canvas'.isDragging
                  /\ canvas'.dragStart =
                         [x |-> point.x, y |-> point.y, nodeId |-> nodeId]
       /\ \A point \in Points :
              (/\ OnMouseMove(point)
               /\ canvas.isDragging
               /\ canvas.dragStart # NullObject
               /\ canvas.dragStart.nodeId \in DOMAIN nodes) =>
                  LET nodeId == canvas.dragStart.nodeId
                  IN  /\ DOMAIN nodes' = DOMAIN nodes
                      /\ nodes'[nodeId].position.x =
                             nodes[nodeId].position.x + (point.x - canvas.dragStart.x)
                      /\ nodes'[nodeId].position.y =
                             nodes[nodeId].position.y + (point.y - canvas.dragStart.y)
                      /\ nodes' = [nodes EXCEPT
                                      ![nodeId].position = nodes'[nodeId].position]
                      /\ canvas'.dragStart.x = point.x
                      /\ canvas'.dragStart.y = point.y
                      /\ canvas'.dragStart.nodeId = nodeId
                      /\ canvas'.isDragging
      ]_vars

\* a node dragged away from where it was loaded, the pointer on it, with
\* as many onNodeDrag listeners on the document as the model allows
C21_Witness ==
    /\ listeners.nodeDrag = MaxListeners
    /\ canvas.isDragging
    /\ canvas.dragStart # NullObject
    /\ canvas.dragStart.nodeId \in DOMAIN nodes
    /\ nodes[canvas.dragStart.nodeId].position # Origin
    /\ nodes[canvas.dragStart.nodeId].position.x = canvas.dragStart.x
    /\ nodes[canvas.dragStart.nodeId].position.y = canvas.dragStart.y

(* C22: connections run only from an output handle to an input handle of a
   different node.  A mousedown on an input handle changes nothing; a
   mousedown on the output handle of s starts a gesture from s and creates
   nothing; a mouseup changes the connections only during a gesture and only
   when released on an input handle of a node t other than the gesture's
   source s, and then exactly one entry is set, to the connection from s to
   t; and no connection in the collection joins a node to itself. *)
C22_OutputToOtherInput ==
    /\ [](\A id \in DOMAIN connections :
              connections[id].source # connections[id].target)
    /\ [][/\ \A nodeId \in Ids :
                 OnMouseDownHandle(nodeId, "input") => UNCHANGED vars
          /\ \A nodeId \in Ids :
                 OnMouseDownHandle(nodeId, "output") =>
                     /\ canvas'.isConnecting
                     /\ canvas'.connectionStart =
                            [nodeId |-> nodeId, handle |-> "output"]
                     /\ UNCHANGED <<connections, connectionsLayer>>
          /\ \A target \in MouseTargets :
                 (OnMouseUp(target) /\ connections' # connections) =>
                     /\ canvas.isConnecting
                     /\ target.kind = "handle"
                     /\ target.handle = "input"
                     /\ target.nodeId # canvas.connectionStart.nodeId
                     /\ \E id \in Ids :
                            connections' =
                                MapSet(connections, id,
                                       NewConnection(canvas.connectionStart.nodeId,
                                                     "output", target.nodeId, "input"))
         ]_vars

\* a connection drawn by hand between the two loaded nodes
C22_Witness ==
    /\ workflowData = PairDefinition
    /\ ~canvas.isConnecting
    /\ listeners.connection > 0
    /\ \E id \in DOMAIN connections :
           /\ connections[id].source \in DOMAIN nodes
           /\ connections[id].target \in DOMAIN nodes
           /\ connections[id].sourceHandle = "output"
           /\ connections[id].targetHandle = "input"

(* C23: one gesture, at most one connection.  On every mouseup, however
   many onConnectionEnd listeners the document holds, addConnection is
   called at most once, no connection is removed, at most one entry of the
   collection is new or changed, and afterwards isConnecting is false and
   connectionStart is null, whether or not a connection was created. *)
C23_OneGestureOneConnection ==
    [][\A target \in MouseTargets :
           OnMouseUp(target) =>
               /\ \A after \in MouseUpOutcomes(target) : after.added <= 1
               /\ DOMAIN connections \subseteq DOMAIN connections'
               /\ Cardinality({id \in DOMAIN connections' :
                                   \/ id \notin DOMAIN connections
                                   \/ connections'[id] # connections[id]}) <= 1
               /\ ~canvas'.isConnecting
               /\ canvas'.connectionStart = NullObject
      ]_vars

\* a connection drawn by hand, the gesture over, with as many
\* onConnectionEnd listeners on the document as the model allows
C23_Witness ==
    /\ workflowData = PairDefinition
    /\ listeners.connection = MaxListeners
    /\ ~canvas.isConnecting
    /\ canvas.connectionStart = NullObject
    /\ DOMAIN connections # {}

(* C24: selection is exclusive and valid.  selectedNode and
   selectedConnection are never both set; a set selectedNode is the id of a
   node of the collection and a set selectedConnection is the id of a
   connection of the collection. *)
C24_SelectionExclusiveAndValid ==
    /\ ~(selectedNode # Null /\ selectedConnection # Null)
    /\ selectedNode # Null => selectedNode \in DOMAIN nodes
    /\ selectedConnection # Null => selectedConnection \in DOMAIN connections

\* a node and its connection have been deleted and the node that is left
\* has been selected
C24_Witness ==
    /\ workflowData = ChainDefinition
    /\ initPhase = "done"
    /\ DOMAIN nodes # DOMAIN workflowData.nodes
    /\ DOMAIN connections = {}
    /\ selectedNode # Null
    /\ selectedNode \in DOMAIN nodes

(* C25: identifiers are fresh.  Every addNode call makes the node
   collection one larger and every addConnection call makes the connection
   collection one larger: the id generateId returns is never one that is
   already in use. *)
C25_IdsAreFresh ==
    [][/\ \A typeName \in DroppedTypeNames : \A point \in Points :
              (OnDrop(typeName, point) /\ typeName \in nodeTypes) =>
                  Cardinality(DOMAIN nodes') = Cardinality(DOMAIN nodes) + 1
       /\ \A target \in MouseTargets :
              OnMouseUp(target) =>
                  \A after \in MouseUpOutcomes(target) :
                      Cardinality(DOMAIN after.connections) =
                          Cardinality(DOMAIN connections) + after.added
      ]_vars

(* C26: zoom stays within bounds.  The scale is always between 0.1 and 3;
   zoomIn sets it to 1.2 times its value, or to 3 if that is larger;
   zoomOut sets it to its value over 1.2, or to 0.1 if that is smaller;
   fitToView sets the scale to 1 and both offsets to 0; and none of the
   three changes anything else of the canvas, the nodes, the connections,
   the selection or isDirty. *)
C26_ZoomWithinBounds ==
    /\ [](MinScale <= canvas.scale /\ canvas.scale <= MaxScale)
    /\ [][/\ ZoomIn =>
                 canvas' = [canvas EXCEPT !.scale =
                               IF TimesOnePointTwo(canvas.scale) > MaxScale
                               THEN MaxScale
                               ELSE TimesOnePointTwo(canvas.scale)]
          /\ ZoomOut =>
                 canvas' = [canvas EXCEPT !.scale =
                               IF OverOnePointTwo(canvas.scale) < MinScale
                               THEN MinScale
                               ELSE OverOnePointTwo(canvas.scale)]
          /\ FitToView =>
                 canvas' = [canvas EXCEPT !.scale = ScaleOne,
                                          !.offsetX = 0, !.offsetY = 0]
          /\ (ZoomIn \/ ZoomOut \/ FitToView) =>
                 UNCHANGED <<nodes, connections, selectedNode,
                             selectedConnection, isDirty>>
         ]_vars

\* zoomed in as far as it goes, with a node selected
C26_Witness ==
    /\ canvas.scale = MaxScale
    /\ initPhase = "done"
    /\ selectedNode # Null

====
